---- MODULE Spec2Model ----
(***************************************************************************)
(* Authorization core of the organization management backend: the          *)
(* role/permission table, the authorize gate, the organization router and  *)
(* the user-management router, over the Organization and UserOrganization  *)
(* tables.  Every `await` on the database is one atomic step of a request. *)
(***************************************************************************)
EXTENDS Integers, Sequences, FiniteSets, TLC

(* ------------------------------ bounds --------------------------------- *)
MaxRows == 3        \* rows the UserOrganization table can hold
MaxCalls == 3       \* router calls started in the interleaved specification
MaxPerms == 2       \* length of a permission list handed to authorize

(* ------------------------------ universe ------------------------------- *)
Null == "null"
User == {"u1", "u2"}                       \* rows of the User table
SessionUsers == User \cup {"ghost"}        \* session ids; "ghost" has no User row
OrgIds == {1, 2}                           \* ids an Organization row can get
Slugs == {"s1", "s2"}
Procs == {"p1", "p2"}
UserRole == {"ADMIN", "MEMBER"}

(* --------------------------- permissions.ts ---------------------------- *)
PERMISSIONS ==
  [ ORG_VIEW |-> "org:view", ORG_UPDATE |-> "org:update", ORG_DELETE |-> "org:delete",
    MEMBER_VIEW |-> "member:view", MEMBER_INVITE |-> "member:invite",
    MEMBER_UPDATE_ROLE |-> "member:update_role", MEMBER_REMOVE |-> "member:remove",
    EXPENSE_CREATE |-> "expense:create", EXPENSE_VIEW_OWN |-> "expense:view_own",
    EXPENSE_VIEW_ALL |-> "expense:view_all", EXPENSE_UPDATE_OWN |-> "expense:update_own",
    EXPENSE_UPDATE_ALL |-> "expense:update_all", EXPENSE_DELETE_OWN |-> "expense:delete_own",
    EXPENSE_DELETE_ALL |-> "expense:delete_all",
    POLICY_VIEW |-> "policy:view", POLICY_CREATE |-> "policy:create",
    POLICY_UPDATE |-> "policy:update", POLICY_DELETE |-> "policy:delete" ]

Permission == { PERMISSIONS[k] : k \in DOMAIN PERMISSIONS }

\* variant: MEMBER has been given org:update
ROLE_PERMISSIONS_MemberUpdates ==
  [ ADMIN |->
      << PERMISSIONS.ORG_VIEW, PERMISSIONS.ORG_UPDATE, PERMISSIONS.ORG_DELETE,
         PERMISSIONS.MEMBER_VIEW, PERMISSIONS.MEMBER_INVITE,
         PERMISSIONS.MEMBER_UPDATE_ROLE, PERMISSIONS.MEMBER_REMOVE,
         PERMISSIONS.EXPENSE_CREATE, PERMISSIONS.EXPENSE_VIEW_OWN,
         PERMISSIONS.EXPENSE_VIEW_ALL, PERMISSIONS.EXPENSE_UPDATE_OWN,
         PERMISSIONS.EXPENSE_UPDATE_ALL, PERMISSIONS.EXPENSE_DELETE_OWN,
         PERMISSIONS.EXPENSE_DELETE_ALL,
         PERMISSIONS.POLICY_VIEW, PERMISSIONS.POLICY_CREATE,
         PERMISSIONS.POLICY_UPDATE, PERMISSIONS.POLICY_DELETE >>,
    MEMBER |->
      << PERMISSIONS.ORG_VIEW, PERMISSIONS.ORG_UPDATE,
         PERMISSIONS.MEMBER_VIEW,
         PERMISSIONS.EXPENSE_CREATE, PERMISSIONS.EXPENSE_VIEW_OWN,
         PERMISSIONS.EXPENSE_UPDATE_OWN, PERMISSIONS.EXPENSE_DELETE_OWN,
         PERMISSIONS.POLICY_VIEW >> ]

ROLE_PERMISSIONS ==
  [ ADMIN |->
      << PERMISSIONS.ORG_VIEW, PERMISSIONS.ORG_UPDATE, PERMISSIONS.ORG_DELETE,
         PERMISSIONS.MEMBER_VIEW, PERMISSIONS.MEMBER_INVITE,
         PERMISSIONS.MEMBER_UPDATE_ROLE, PERMISSIONS.MEMBER_REMOVE,
         PERMISSIONS.EXPENSE_CREATE, PERMISSIONS.EXPENSE_VIEW_OWN,
         PERMISSIONS.EXPENSE_VIEW_ALL, PERMISSIONS.EXPENSE_UPDATE_OWN,
         PERMISSIONS.EXPENSE_UPDATE_ALL, PERMISSIONS.EXPENSE_DELETE_OWN,
         PERMISSIONS.EXPENSE_DELETE_ALL,
         PERMISSIONS.POLICY_VIEW, PERMISSIONS.POLICY_CREATE,
         PERMISSIONS.POLICY_UPDATE, PERMISSIONS.POLICY_DELETE >>,
    MEMBER |->
      << PERMISSIONS.ORG_VIEW,
         PERMISSIONS.MEMBER_VIEW,
         PERMISSIONS.EXPENSE_CREATE, PERMISSIONS.EXPENSE_VIEW_OWN,
         PERMISSIONS.EXPENSE_UPDATE_OWN, PERMISSIONS.EXPENSE_DELETE_OWN,
         PERMISSIONS.POLICY_VIEW >> ]

\* Array.prototype.includes
Includes(array, x) == \E i \in DOMAIN array : array[i] = x

\* ROLE_PERMISSIONS[role]?.includes(permission) ?? false
hasPermission(role, permission) ==
  IF role \in DOMAIN ROLE_PERMISSIONS
    THEN Includes(ROLE_PERMISSIONS[role], permission)
    ELSE FALSE

\* permissions.some(permission => hasPermission(role, permission))
hasAnyPermission(role, permissions) ==
  \E i \in DOMAIN permissions : hasPermission(role, permissions[i])

\* variant: an empty list is refused
hasAllPermissionsNonEmpty(role, permissions) ==
  /\ permissions # << >>
  /\ \A i \in DOMAIN permissions : hasPermission(role, permissions[i])

\* permissions.every(permission => hasPermission(role, permission))
hasAllPermissions(role, permissions) ==
  \A i \in DOMAIN permissions : hasPermission(role, permissions[i])

\* ROLE_PERMISSIONS[role] ?? []
getRolePermissions(role) ==
  IF role \in DOMAIN ROLE_PERMISSIONS THEN ROLE_PERMISSIONS[role] ELSE << >>

(* --------------------------- lib/authorization.ts ---------------------- *)
\* Object.values(PERMISSIONS): the values in the order the keys are written
ObjectValuesPERMISSIONS ==
  << PERMISSIONS.ORG_VIEW, PERMISSIONS.ORG_UPDATE, PERMISSIONS.ORG_DELETE,
     PERMISSIONS.MEMBER_VIEW, PERMISSIONS.MEMBER_INVITE,
     PERMISSIONS.MEMBER_UPDATE_ROLE, PERMISSIONS.MEMBER_REMOVE,
     PERMISSIONS.EXPENSE_CREATE, PERMISSIONS.EXPENSE_VIEW_OWN,
     PERMISSIONS.EXPENSE_VIEW_ALL, PERMISSIONS.EXPENSE_UPDATE_OWN,
     PERMISSIONS.EXPENSE_UPDATE_ALL, PERMISSIONS.EXPENSE_DELETE_OWN,
     PERMISSIONS.EXPENSE_DELETE_ALL,
     PERMISSIONS.POLICY_VIEW, PERMISSIONS.POLICY_CREATE,
     PERMISSIONS.POLICY_UPDATE, PERMISSIONS.POLICY_DELETE >>

\* !role: undefined is the only role value here that is falsy
Falsy(role) == role = Null

canUserPerform(role, permission) == hasPermission(role, permission)

\* permissions.some(permission => hasPermission(role, permission))
canUserPerformAny(role, permissions) ==
  \E i \in DOMAIN permissions : hasPermission(role, permissions[i])

\* permissions.every(permission => hasPermission(role, permission))
canUserPerformAll(role, permissions) ==
  \A i \in DOMAIN permissions : hasPermission(role, permissions[i])

\* variant: the filter is left out
getUserPermissionsUnfiltered(role) == ObjectValuesPERMISSIONS

\* Object.values(PERMISSIONS).filter(permission => hasPermission(role, permission))
getUserPermissions(role) ==
  LET Test(permission) == hasPermission(role, permission)
  IN  SelectSeq(ObjectValuesPERMISSIONS, Test)

\* if (!role) return false; return canUserPerform(role, permission)
usePermission(role, permission) ==
  IF Falsy(role) THEN FALSE ELSE canUserPerform(role, permission)

useAnyPermission(role, permissions) ==
  IF Falsy(role) THEN FALSE ELSE canUserPerformAny(role, permissions)

useAllPermissions(role, permissions) ==
  IF Falsy(role) THEN FALSE ELSE canUserPerformAll(role, permissions)

\* PermissionGuard({ role, permission, children, fallback }):
\* if (!usePermission(role, permission)) return <>{fallback}</>; return <>{children}</>
PermissionGuard(role, permission, children, fallback) ==
  IF ~usePermission(role, permission) THEN fallback ELSE children

(* ------------------------------- state --------------------------------- *)
VARIABLES
  organization,       \* Organization table: sequence of rows, row i has id i
  userOrganization,   \* UserOrganization table: rows in order of creation
  req,                \* per connection: the request in flight or last answered
  calls,              \* router calls started so far
  gate,               \* last direct call of authorize: its inputs and outcome
  evaluated           \* last call of a permission evaluator: inputs and result

vars == << organization, userOrganization, req, calls, gate, evaluated >>

(* ------------------------------ errors --------------------------------- *)
NoValue == [none |-> TRUE]
TRPCError(code, message) == [code |-> code, message |-> message, value |-> NoValue]
Ok(value) == [code |-> "OK", message |-> "", value |-> value]
\* an error thrown by the Prisma client, which tRPC reports as an internal error
PrismaError(code) == TRPCError("INTERNAL_SERVER_ERROR", code)

NotAMember == TRPCError("FORBIDDEN", "You are not a member of this organization")
NoPermission == TRPCError("FORBIDDEN", "You don't have permission to perform this action")
\* variant: a missing target is reported like a missing caller
TargetRefused == TRPCError("FORBIDDEN", "You are not a member of this organization")
TargetNotFound == TRPCError("NOT_FOUND", "User is not a member of this organization")
LastAdmin == TRPCError("FORBIDDEN", "Cannot remove the last admin from an organization")
SlugConflict == TRPCError("CONFLICT", "Organization with this slug already exists")
OrganizationNotFound == TRPCError("NOT_FOUND", "Organization not found")
NoResult == TRPCError(Null, Null)

(* ------------------------- the tables (Prisma) ------------------------- *)
NullRow == [userId |-> Null, organizationId |-> 0, role |-> Null]
IsNull(row) == row.role = Null

\* variant: the lookup matches the user and not the organization
FindUniqueUserOrganizationAnyOrg(uo, userId, organizationId) ==
  IF \E i \in DOMAIN uo : uo[i].userId = userId
    THEN uo[CHOOSE i \in DOMAIN uo : uo[i].userId = userId]
    ELSE NullRow

\* userOrganization.findUnique({ where: { userId_organizationId } })
FindUniqueUserOrganization(uo, userId, organizationId) ==
  IF \E i \in DOMAIN uo : uo[i].userId = userId /\ uo[i].organizationId = organizationId
    THEN uo[CHOOSE i \in DOMAIN uo :
                uo[i].userId = userId /\ uo[i].organizationId = organizationId]
    ELSE NullRow

\* userOrganization.count({ where: { organizationId, role } })
CountUserOrganization(uo, organizationId, role) ==
  Cardinality({ i \in DOMAIN uo :
                  uo[i].organizationId = organizationId /\ uo[i].role = role })

\* variant: orderBy: { createdAt: "desc" }
FindManyByOrganizationDesc(uo, organizationId) ==
  LET Test(row) == row.organizationId = organizationId
      asc == SelectSeq(uo, Test)
  IN  [ i \in DOMAIN asc |-> asc[Len(asc) + 1 - i] ]

\* userOrganization.findMany({ where: { organizationId }, orderBy: { createdAt: "asc" } })
FindManyByOrganization(uo, organizationId) ==
  LET Test(row) == row.organizationId = organizationId
  IN  SelectSeq(uo, Test)

\* variant: the where clause names the user only
UpdateUserOrganizationEverywhere(uo, userId, organizationId, role) ==
  [ i \in DOMAIN uo |->
      IF uo[i].userId = userId THEN [ uo[i] EXCEPT !.role = role ] ELSE uo[i] ]

\* userOrganization.update({ where: { userId_organizationId }, data: { role } })
UpdateUserOrganization(uo, userId, organizationId, role) ==
  [ i \in DOMAIN uo |->
      IF uo[i].userId = userId /\ uo[i].organizationId = organizationId
        THEN [ uo[i] EXCEPT !.role = role ]
        ELSE uo[i] ]

\* variant: the delete leaves the row in place
DeleteUserOrganizationKeepsRow(uo, userId, organizationId) == uo

\* userOrganization.delete({ where: { userId_organizationId } })
DeleteUserOrganization(uo, userId, organizationId) ==
  LET Test(row) == ~(row.userId = userId /\ row.organizationId = organizationId)
  IN  SelectSeq(uo, Test)

\* organization rows are keyed by id; ids are handed out in order of insertion
OrganizationExists(org, id) == id \in DOMAIN org

\* organization.findUnique({ where: { slug } })
SlugTaken(org, slug) == \E i \in DOMAIN org : org[i].slug = slug

\* variant: the filter id: { not: id } is missing
SlugTakenByAny(org, slug, id) == \E i \in DOMAIN org : org[i].slug = slug

\* organization.findFirst({ where: { slug, id: { not: id } } })
SlugTakenByOther(org, slug, id) == \E i \in DOMAIN org : org[i].slug = slug /\ i # id

\* variant: the slug column has no unique index
NoUniqueSlugIndex(org, slug, id) == FALSE

\* the unique index on Organization.slug: a write of slug into the row with
\* this id (0 for a new row) is rejected when another row holds the slug
UniqueSlugIndex(org, slug, id) == \E i \in DOMAIN org : org[i].slug = slug /\ i # id

(* --------------------------- trpc.ts: the gate -------------------------- *)
\* the caller's role in the organization, or null when there is no row
getUserRole(userId, organizationId, uo) ==
  FindUniqueUserOrganization(uo, userId, organizationId).role

\* requiredPermissions is a Permission or a Permission[]
One(permission) == [isArray |-> FALSE, one |-> permission, many |-> << >>]
Many(permissions) == [isArray |-> TRUE, one |-> Null, many |-> permissions]

\* variant: the membership test is missing
authorizeWithoutMembershipTest(uo, userId, organizationId, requiredPermissions) ==
  LET userRole == getUserRole(userId, organizationId, uo)
      permissions == IF requiredPermissions.isArray
                       THEN requiredPermissions.many
                       ELSE << requiredPermissions.one >>
  IN  IF ~(\E i \in DOMAIN permissions : hasPermission(userRole, permissions[i]))
        THEN NoPermission
        ELSE Ok([role |-> userRole])

\* variant: the permission test is missing
authorizeAnyMember(uo, userId, organizationId, requiredPermissions) ==
  LET userRole == getUserRole(userId, organizationId, uo)
  IN  IF userRole = Null THEN NotAMember ELSE Ok([role |-> userRole])

\* variant: permissions.every in place of permissions.some
authorizeEvery(uo, userId, organizationId, requiredPermissions) ==
  LET userRole == getUserRole(userId, organizationId, uo)
      permissions == IF requiredPermissions.isArray
                       THEN requiredPermissions.many
                       ELSE << requiredPermissions.one >>
  IN  IF userRole = Null THEN NotAMember
      ELSE IF ~(\A i \in DOMAIN permissions : hasPermission(userRole, permissions[i]))
        THEN NoPermission
      ELSE Ok([role |-> userRole])

\* the role when the check passes, otherwise the error thrown
authorize(uo, userId, organizationId, requiredPermissions) ==
  LET userRole == getUserRole(userId, organizationId, uo)
      permissions == IF requiredPermissions.isArray
                       THEN requiredPermissions.many
                       ELSE << requiredPermissions.one >>
      hasRequiredPermission ==
        \E i \in DOMAIN permissions : hasPermission(userRole, permissions[i])
  IN  IF userRole = Null THEN NotAMember
      ELSE IF ~hasRequiredPermission THEN NoPermission
      ELSE Ok([role |-> userRole])

(* ------------------------------ requests ------------------------------- *)
Idle ==
  [ op |-> Null, pc |-> "idle", caller |-> Null, organizationId |-> 0,
    userId |-> Null, role |-> Null, name |-> Null, slug |-> Null,
    targetUserOrg |-> NullRow, result |-> NoResult ]

InFlight(p) == req[p].pc \notin {"idle", "done"}
Answered(p) == req[p].pc = "done"

\* the request moves to its next await, keeping what it has read so far
Goto(p, pc) == req' = [req EXCEPT ![p].pc = pc]

\* the procedure returns or throws
Finish(p, result) ==
  req' = [req EXCEPT ![p].pc = "done", ![p].result = result]

\* a call arrives on a free connection: zod has accepted the input
Begin(p, op, caller, organizationId, userId, role, name, slug, pc) ==
  /\ req[p].pc = "idle"
  /\ req' = [req EXCEPT ![p] =
       [ Idle EXCEPT !.op = op, !.pc = pc, !.caller = caller,
                     !.organizationId = organizationId, !.userId = userId,
                     !.role = role, !.name = name, !.slug = slug ]]
  /\ UNCHANGED << organization, userOrganization, gate, evaluated >>

At(p, op, pc) == req[p].op = op /\ req[p].pc = pc

\* the answer has gone out and the connection takes the next call
Respond(p) ==
  /\ Answered(p)
  /\ req' = [req EXCEPT ![p] = Idle]
  /\ UNCHANGED << organization, userOrganization, calls, gate, evaluated >>

\* in the interleaved specification every call started is counted
Budget(counted) ==
  IF counted THEN calls < MaxCalls /\ calls' = calls + 1 ELSE UNCHANGED calls

Tables == << organization, userOrganization >>

\* await authorize(ctx.db, ctx.session.user.id, organizationId, permission)
AuthorizeStep(p, op, organizationId, permission, next) ==
  /\ At(p, op, "authorize")
  /\ LET a == authorize(userOrganization, req[p].caller, organizationId, One(permission))
     IN  IF a.code = "OK" THEN Goto(p, next) ELSE Finish(p, a)
  /\ UNCHANGED << Tables, calls, gate, evaluated >>

(* ---------------------- organizationRouter.create ---------------------- *)
OrganizationRow(id, name, slug) == [id |-> id, name |-> name, slug |-> slug]

\* organization inserts that are in flight inside an open transaction
OpenInserts == { q \in Procs : At(q, "create", "tx_userOrganization") }

\* create calls that have not answered yet
PendingCreates == { q \in Procs : req[q].op = "create" /\ InFlight(q) }

CallCreate(p, counted) ==
  /\ Budget(counted)
  /\ Len(organization) + Cardinality(PendingCreates) < Cardinality(OrgIds)
  /\ Len(userOrganization) + Cardinality(PendingCreates) < MaxRows
  /\ \E caller \in SessionUsers, slug \in Slugs :
       Begin(p, "create", caller, 0, Null, Null, "n1", slug, "findUnique")

\* const existingOrg = await ctx.db.organization.findUnique({ where: { slug } })
CreateFindUnique(p) ==
  /\ At(p, "create", "findUnique")
  /\ IF SlugTaken(organization, req[p].slug)
       THEN Finish(p, SlugConflict)
       ELSE Goto(p, "tx_organization")
  /\ UNCHANGED << Tables, calls, gate, evaluated >>

\* tx.organization.create: the unique index on slug rejects a committed duplicate
\* and waits for an uncommitted one
CreateTxOrganization(p) ==
  /\ At(p, "create", "tx_organization")
  /\ \A q \in OpenInserts : req[q].slug # req[p].slug
  /\ IF UniqueSlugIndex(organization, req[p].slug, 0)
       THEN Finish(p, PrismaError("P2002"))
       ELSE Goto(p, "tx_userOrganization")
  /\ UNCHANGED << Tables, calls, gate, evaluated >>

\* the foreign key of UserOrganization.userId
FounderInsertFails(caller) == caller \notin User

\* variant: the two inserts are not in one transaction
CommitOnFailureKeepsOrganization(org, row) == Append(org, row)

\* what the transaction commits when the membership insert throws
CommitOnFailure(org, row) == org

\* tx.userOrganization.create, then the commit or the rollback of both inserts
CreateTxUserOrganization(p) ==
  /\ At(p, "create", "tx_userOrganization")
  /\ LET id == Len(organization) + 1
         row == OrganizationRow(id, req[p].name, req[p].slug)
     IN  IF FounderInsertFails(req[p].caller)
           THEN /\ organization' = CommitOnFailure(organization, row)
                /\ UNCHANGED userOrganization
                /\ Finish(p, PrismaError("P2003"))
           ELSE /\ organization' = Append(organization, row)
                /\ userOrganization' = Append(userOrganization,
                     [userId |-> req[p].caller, organizationId |-> id, role |-> "ADMIN"])
                /\ Finish(p, Ok(row))
  /\ UNCHANGED << calls, gate, evaluated >>

(* ----------------------- organizationRouter.get ------------------------ *)
CallGet(p, counted) ==
  /\ Budget(counted)
  /\ \E caller \in User, id \in OrgIds :
       Begin(p, "get", caller, id, Null, Null, Null, Null, "authorize")

GetAuthorize(p) ==
  AuthorizeStep(p, "get", req[p].organizationId, PERMISSIONS.ORG_VIEW, "findUnique")

GetFindUnique(p) ==
  /\ At(p, "get", "findUnique")
  /\ IF ~OrganizationExists(organization, req[p].organizationId)
       THEN Finish(p, OrganizationNotFound)
       ELSE Finish(p, Ok(organization[req[p].organizationId]))
  /\ UNCHANGED << Tables, calls, gate, evaluated >>

(* ---------------------- organizationRouter.update ---------------------- *)
CallUpdate(p, counted) ==
  /\ Budget(counted)
  /\ \E caller \in User, id \in OrgIds,
        name \in {Null, "n2"}, slug \in {Null} \cup Slugs :
       Begin(p, "update", caller, id, Null, Null, name, slug, "authorize")

UpdateAuthorize(p) ==
  AuthorizeStep(p, "update", req[p].organizationId, PERMISSIONS.ORG_UPDATE,
                IF req[p].slug # Null THEN "findFirst" ELSE "update")

UpdateFindFirst(p) ==
  /\ At(p, "update", "findFirst")
  /\ IF SlugTakenByOther(organization, req[p].slug, req[p].organizationId)
       THEN Finish(p, SlugConflict)
       ELSE Goto(p, "update")
  /\ UNCHANGED << Tables, calls, gate, evaluated >>

\* data: { ...(input.name && { name }), ...(input.slug && { slug }) }
UpdateData(row, name, slug) ==
  [ row EXCEPT !.name = IF name # Null THEN name ELSE @,
               !.slug = IF slug # Null THEN slug ELSE @ ]

\* organization.update: the unique index on slug makes the statement wait for
\* an uncommitted insert of the same slug
UpdateOrganization(p) ==
  /\ At(p, "update", "update")
  /\ \A q \in OpenInserts : req[q].slug # req[p].slug
  /\ LET id == req[p].organizationId
     IN  IF ~OrganizationExists(organization, id)
           THEN /\ Finish(p, PrismaError("P2025"))
                /\ UNCHANGED organization
         ELSE IF req[p].slug # Null /\ UniqueSlugIndex(organization, req[p].slug, id)
           THEN /\ Finish(p, PrismaError("P2002"))
                /\ UNCHANGED organization
         ELSE /\ organization' =
                   [organization EXCEPT ![id] = UpdateData(@, req[p].name, req[p].slug)]
              /\ Finish(p, Ok(UpdateData(organization[id], req[p].name, req[p].slug)))
  /\ UNCHANGED << userOrganization, calls, gate, evaluated >>

(* -------------------- organizationRouter.getMembers -------------------- *)
CallGetMembers(p, counted) ==
  /\ Budget(counted)
  /\ \E caller \in User, id \in OrgIds :
       Begin(p, "getMembers", caller, id, Null, Null, Null, Null, "authorize")

\* variant: getMembers goes to its query without asking the gate
GetMembersSkipsGate(p) ==
  /\ At(p, "getMembers", "authorize")
  /\ Goto(p, "findMany")
  /\ UNCHANGED << Tables, calls, gate, evaluated >>

GetMembersAuthorize(p) ==
  AuthorizeStep(p, "getMembers", req[p].organizationId, PERMISSIONS.MEMBER_VIEW, "findMany")

GetMembersFindMany(p) ==
  /\ At(p, "getMembers", "findMany")
  /\ Finish(p, Ok([members |->
                     FindManyByOrganization(userOrganization, req[p].organizationId)]))
  /\ UNCHANGED << Tables, calls, gate, evaluated >>

(* ------------------ organizationRouter.getUserOrganizations ------------ *)
CallGetUserOrganizations(p, counted) ==
  /\ Budget(counted)
  /\ \E caller \in User :
       Begin(p, "getUserOrganizations", caller, 0, Null, Null, Null, Null, "findMany")

\* userOrganization.findMany({ where: { userId }, include: { organization: true },
\*                             orderBy: { createdAt: "asc" } })
FindManyByUser(uo, userId) ==
  LET Test(row) == row.userId = userId
  IN  SelectSeq(uo, Test)

\* userOrganizations.map((uo) => ({ ...uo.organization, role: uo.role }))
WithRole(org, rows) ==
  [ i \in DOMAIN rows |->
      [ id |-> rows[i].organizationId,
        name |-> org[rows[i].organizationId].name,
        slug |-> org[rows[i].organizationId].slug,
        role |-> rows[i].role ] ]

GetUserOrganizationsFindMany(p) ==
  /\ At(p, "getUserOrganizations", "findMany")
  /\ Finish(p, Ok([organizations |->
                     WithRole(organization,
                              FindManyByUser(userOrganization, req[p].caller))]))
  /\ UNCHANGED << Tables, calls, gate, evaluated >>

(* --------------- organizationRouter.getUserRoleInOrganization ---------- *)
CallGetUserRoleInOrganization(p, counted) ==
  /\ Budget(counted)
  /\ \E caller \in User, id \in OrgIds :
       Begin(p, "getUserRoleInOrganization", caller, id, Null, Null, Null, Null,
             "findUnique")

\* variant: the procedure goes through the gate like getMembers
getUserRoleInOrganizationGated(uo, userId, organizationId) ==
  authorize(uo, userId, organizationId, One(PERMISSIONS.MEMBER_VIEW))

\* the row's role, or NOT_FOUND when findUnique returns null
getUserRoleInOrganization(uo, userId, organizationId) ==
  LET row == FindUniqueUserOrganization(uo, userId, organizationId)
  IN  IF IsNull(row)
        THEN TRPCError("NOT_FOUND", "User is not a member of this organization")
        ELSE Ok(row.role)

GetUserRoleInOrganizationFindUnique(p) ==
  /\ At(p, "getUserRoleInOrganization", "findUnique")
  /\ Finish(p, getUserRoleInOrganization(userOrganization, req[p].caller,
                                         req[p].organizationId))
  /\ UNCHANGED << Tables, calls, gate, evaluated >>

(* ------------------ userManagementRouter.updateUserRole ---------------- *)
\* variant: the guard only trips on an organization without admins
IsLastAdminBelowOne(adminCount) == adminCount < 1

\* variant: the guard also trips while a second admin remains
IsLastAdminUpToTwo(adminCount) == adminCount <= 2

\* adminCount <= 1
IsLastAdmin(adminCount) == adminCount <= 1

\* variant: the count is made for every ADMIN target, whatever the new role
IsDemotionOfAnyAdmin(targetRole, newRole) == targetRole = "ADMIN"

\* targetUserOrg.role === UserRole.ADMIN && input.role !== UserRole.ADMIN
IsDemotion(targetRole, newRole) == targetRole = "ADMIN" /\ newRole # "ADMIN"

CallUpdateUserRole(p, counted) ==
  /\ Budget(counted)
  /\ \E caller \in User, userId \in User, id \in OrgIds, role \in UserRole :
       Begin(p, "updateUserRole", caller, id, userId, role, Null, Null, "authorize")

\* variant: the target is looked up before the gate is asked
UpdateUserRoleFindsTargetFirst(p) ==
  IF IsNull(FindUniqueUserOrganization(userOrganization, req[p].userId,
                                       req[p].organizationId))
    THEN /\ At(p, "updateUserRole", "authorize")
         /\ Finish(p, TargetNotFound)
         /\ UNCHANGED << Tables, calls, gate, evaluated >>
    ELSE AuthorizeStep(p, "updateUserRole", req[p].organizationId,
                       PERMISSIONS.MEMBER_UPDATE_ROLE, "findUnique")

UpdateUserRoleAuthorize(p) ==
  AuthorizeStep(p, "updateUserRole", req[p].organizationId,
                PERMISSIONS.MEMBER_UPDATE_ROLE, "findUnique")

UpdateUserRoleFindUnique(p) ==
  /\ At(p, "updateUserRole", "findUnique")
  /\ LET targetUserOrg ==
           FindUniqueUserOrganization(userOrganization, req[p].userId, req[p].organizationId)
     IN  IF IsNull(targetUserOrg)
           THEN Finish(p, TargetNotFound)
           ELSE req' = [req EXCEPT
                  ![p].targetUserOrg = targetUserOrg,
                  ![p].pc = IF IsDemotion(targetUserOrg.role, req[p].role)
                              THEN "count" ELSE "update"]
  /\ UNCHANGED << Tables, calls, gate, evaluated >>

UpdateUserRoleCount(p) ==
  /\ At(p, "updateUserRole", "count")
  /\ LET adminCount ==
           CountUserOrganization(userOrganization, req[p].organizationId, "ADMIN")
     IN  IF IsLastAdmin(adminCount)
           THEN Finish(p, LastAdmin)
           ELSE Goto(p, "update")
  /\ UNCHANGED << Tables, calls, gate, evaluated >>

UpdateUserRoleUpdate(p) ==
  /\ At(p, "updateUserRole", "update")
  /\ LET row == FindUniqueUserOrganization(userOrganization, req[p].userId,
                                           req[p].organizationId)
     IN  IF IsNull(row)
           THEN /\ Finish(p, PrismaError("P2025"))
                /\ UNCHANGED userOrganization
           ELSE /\ userOrganization' =
                     UpdateUserOrganization(userOrganization, req[p].userId,
                                            req[p].organizationId, req[p].role)
                /\ Finish(p, Ok([row EXCEPT !.role = req[p].role]))
  /\ UNCHANGED << organization, calls, gate, evaluated >>

(* ------------ userManagementRouter.removeUserFromOrganization ---------- *)
\* variant: the wrong role constant
IsAdminTargetMember(targetRole) == targetRole = "MEMBER"

\* targetUserOrg.role === UserRole.ADMIN
IsAdminTarget(targetRole) == targetRole = "ADMIN"

CallRemoveUser(p, counted) ==
  /\ Budget(counted)
  /\ \E caller \in User, userId \in User, id \in OrgIds :
       Begin(p, "removeUserFromOrganization", caller, id, userId, Null, Null, Null,
             "authorize")

RemoveUserAuthorize(p) ==
  AuthorizeStep(p, "removeUserFromOrganization", req[p].organizationId,
                PERMISSIONS.MEMBER_REMOVE, "findUnique")

RemoveUserFindUnique(p) ==
  /\ At(p, "removeUserFromOrganization", "findUnique")
  /\ LET targetUserOrg ==
           FindUniqueUserOrganization(userOrganization, req[p].userId, req[p].organizationId)
     IN  IF IsNull(targetUserOrg)
           THEN Finish(p, TargetNotFound)
           ELSE req' = [req EXCEPT
                  ![p].targetUserOrg = targetUserOrg,
                  ![p].pc = IF IsAdminTarget(targetUserOrg.role) THEN "count" ELSE "delete"]
  /\ UNCHANGED << Tables, calls, gate, evaluated >>

\* variant: the row is deleted before the admins are counted
RemoveUserCountAfterDelete(p) ==
  /\ At(p, "removeUserFromOrganization", "count")
  /\ userOrganization' =
       DeleteUserOrganization(userOrganization, req[p].userId, req[p].organizationId)
  /\ IF IsLastAdmin(CountUserOrganization(userOrganization', req[p].organizationId, "ADMIN"))
       THEN Finish(p, LastAdmin)
       ELSE Goto(p, "delete")
  /\ UNCHANGED << organization, calls, gate, evaluated >>

RemoveUserCount(p) ==
  /\ At(p, "removeUserFromOrganization", "count")
  /\ LET adminCount ==
           CountUserOrganization(userOrganization, req[p].organizationId, "ADMIN")
     IN  IF IsLastAdmin(adminCount)
           THEN Finish(p, LastAdmin)
           ELSE Goto(p, "delete")
  /\ UNCHANGED << Tables, calls, gate, evaluated >>

RemoveUserDelete(p) ==
  /\ At(p, "removeUserFromOrganization", "delete")
  /\ LET row == FindUniqueUserOrganization(userOrganization, req[p].userId,
                                           req[p].organizationId)
     IN  IF IsNull(row)
           THEN /\ Finish(p, PrismaError("P2025"))
                /\ UNCHANGED userOrganization
           ELSE /\ userOrganization' =
                     DeleteUserOrganization(userOrganization, req[p].userId,
                                            req[p].organizationId)
                /\ Finish(p, Ok([success |-> TRUE]))
  /\ UNCHANGED << organization, calls, gate, evaluated >>

(* -------------- a membership added to an existing organization --------- *)
\* variant: the table has no unique index on the pair
CreateUserOrganizationNoIndex(uo, row) ==
  [rows |-> Append(uo, row), result |-> Ok(row)]

\* db.userOrganization.create({ data }): @@unique([userId, orgId]) rejects a
\* second row for the pair with P2002 and writes nothing
CreateUserOrganization(uo, row) ==
  IF ~IsNull(FindUniqueUserOrganization(uo, row.userId, row.organizationId))
    THEN [rows |-> uo, result |-> PrismaError("P2002")]
    ELSE [rows |-> Append(uo, row), result |-> Ok(row)]

\* a client of the store inserts a membership over connection p; both
\* foreign keys resolve
AddMembership(p) ==
  /\ req[p].pc = "idle"
  /\ \E userId \in User, id \in OrgIds, role \in UserRole :
       LET row == [userId |-> userId, organizationId |-> id, role |-> role]
           created == CreateUserOrganization(userOrganization, row)
       IN  /\ OrganizationExists(organization, id)
           /\ Len(created.rows) + Cardinality(PendingCreates) <= MaxRows
           /\ userOrganization' = created.rows
           /\ req' = [req EXCEPT ![p] =
                [ Idle EXCEPT !.op = "userOrganization.create", !.pc = "done",
                              !.organizationId = id, !.userId = userId,
                              !.role = role, !.result = created.result ]]
  /\ UNCHANGED << organization, calls, gate, evaluated >>

(* --------------------------- specifications ---------------------------- *)
NoEvaluation ==
  [call |-> Null, role |-> Null, permission |-> Null, permissions |-> << >>, result |-> Null]

NoGate == [userId |-> Null, organizationId |-> 0, required |-> One(Null), result |-> NoResult]

Init ==
  /\ organization = << >>
  /\ userOrganization = << >>
  /\ req = [p \in Procs |-> Idle]
  /\ calls = 0
  /\ gate = NoGate
  /\ evaluated = NoEvaluation

\* one await of the request on connection p
Step(p) ==
  \/ CreateFindUnique(p) \/ CreateTxOrganization(p) \/ CreateTxUserOrganization(p)
  \/ UpdateAuthorize(p) \/ UpdateFindFirst(p) \/ UpdateOrganization(p)
  \/ UpdateUserRoleAuthorize(p) \/ UpdateUserRoleFindUnique(p)
  \/ UpdateUserRoleCount(p) \/ UpdateUserRoleUpdate(p)
  \/ RemoveUserAuthorize(p) \/ RemoveUserFindUnique(p)
  \/ RemoveUserCount(p) \/ RemoveUserDelete(p)

\* the reads of the organization router
ReadStep(p) ==
  \/ GetAuthorize(p) \/ GetFindUnique(p)
  \/ GetMembersAuthorize(p) \/ GetMembersFindMany(p)
  \/ GetUserOrganizationsFindMany(p) \/ GetUserRoleInOrganizationFindUnique(p)

\* requests on the two connections interleave at every await
Next ==
  \/ \E p \in Procs :
       \/ CallCreate(p, TRUE) \/ CallUpdate(p, TRUE)
       \/ CallUpdateUserRole(p, TRUE) \/ CallRemoveUser(p, TRUE)
       \/ Step(p)
       \/ Respond(p)
       \/ AddMembership(p)

Spec == Init /\ [][Next]_vars

\* the same with get among the procedures called
NextWithGet ==
  \/ Next
  \/ \E p \in Procs : CallGet(p, TRUE) \/ GetAuthorize(p) \/ GetFindUnique(p)

SpecWithGet == Init /\ [][NextWithGet]_vars

\* complete, non-overlapping calls: one connection, so the tables are only
\* touched between two calls

NextSeq ==
  \/ CallCreate("p1", FALSE) \/ CallUpdate("p1", FALSE)
  \/ CallUpdateUserRole("p1", FALSE) \/ CallRemoveUser("p1", FALSE)
  \/ CallGet("p1", FALSE) \/ CallGetMembers("p1", FALSE)
  \/ CallGetUserOrganizations("p1", FALSE)
  \/ CallGetUserRoleInOrganization("p1", FALSE)
  \/ Step("p1") \/ ReadStep("p1") \/ Respond("p1")
  \/ AddMembership("p1")

SpecSeq == Init /\ [][NextSeq]_vars

(* --------------------- the gate called on its own ---------------------- *)
\* tables the routers reach: organization 1 with its founder, and possibly
\* the other user as a second member
GateTables ==
  UNION { { << [userId |-> u, organizationId |-> 1, role |-> "ADMIN"] >> }
          \cup { << [userId |-> u, organizationId |-> 1, role |-> "ADMIN"],
                    [userId |-> v, organizationId |-> 1, role |-> r] >> :
                 v \in User \ {u}, r \in UserRole } : u \in User }

PermissionLists == UNION { [1..n -> Permission] : n \in 0..MaxPerms }

RequiredPermissions ==
  { One(x) : x \in Permission } \cup { Many(l) : l \in PermissionLists }

GateInit ==
  /\ organization = << OrganizationRow(1, "n1", "s1") >>
  /\ userOrganization \in GateTables
  /\ req = [p \in Procs |-> Idle]
  /\ calls = 0
  /\ gate = NoGate
  /\ evaluated = NoEvaluation

GateCall ==
  /\ gate = NoGate
  /\ \E userId \in SessionUsers, id \in OrgIds, required \in RequiredPermissions :
       gate' = [ userId |-> userId, organizationId |-> id, required |-> required,
                 result |-> authorize(userOrganization, userId, id, required) ]
  /\ UNCHANGED << organization, userOrganization, req, calls, evaluated >>

GateReturn ==
  /\ gate # NoGate
  /\ gate' = NoGate
  /\ UNCHANGED << organization, userOrganization, req, calls, evaluated >>

GateNext == GateCall \/ GateReturn

SpecGate == GateInit /\ [][GateNext]_vars

(* ------------------- reads repeated between writes --------------------- *)
Reads == {"getMembers", "getUserOrganizations"}

\* a connection is in a read, or still holds its answer
ReadHeld == \E p \in Procs : req[p].op \in Reads

\* a connection is in a write, or still holds its answer
WriteHeld == \E p \in Procs : req[p].op \notin Reads \cup {Null}

\* both connections read, and the tables are written only while no read is
\* in progress or unanswered
NextRead ==
  \/ /\ ~WriteHeld
     /\ \E p \in Procs : CallGetMembers(p, FALSE) \/ CallGetUserOrganizations(p, FALSE)
  \/ \E p \in Procs :
       \/ GetMembersAuthorize(p) \/ GetMembersFindMany(p)
       \/ GetUserOrganizationsFindMany(p)
       \/ Respond(p)
  \/ /\ ~ReadHeld
     /\ \/ CallCreate("p1", FALSE) \/ CallUpdate("p1", FALSE)
        \/ CallUpdateUserRole("p1", FALSE) \/ CallRemoveUser("p1", FALSE)
        \/ Step("p1") \/ AddMembership("p1")

SpecRead == Init /\ [][NextRead]_vars

(* ----------------- the permission evaluators on their own -------------- *)
\* a role as a caller can hand it in: a UserRole, undefined, or a string that
\* is no key of ROLE_PERMISSIONS
RoleValues == UserRole \cup {Null, "GUEST"}

PermissionEvaluators == {"hasPermission", "canUserPerform", "usePermission"}

ListEvaluators ==
  { "hasAnyPermission", "hasAllPermissions", "canUserPerformAny",
    "canUserPerformAll", "useAnyPermission", "useAllPermissions" }

RoleEvaluators == {"getRolePermissions", "getUserPermissions"}

EvaluatePermission ==
  /\ evaluated.call = Null
  /\ \E call \in PermissionEvaluators, role \in RoleValues, permission \in Permission :
       evaluated' =
         [ call |-> call, role |-> role, permission |-> permission,
           permissions |-> << >>,
           result |->
             CASE call = "hasPermission" -> hasPermission(role, permission)
               [] call = "canUserPerform" -> canUserPerform(role, permission)
               [] call = "usePermission" -> usePermission(role, permission) ]
  /\ UNCHANGED << organization, userOrganization, req, calls, gate >>

EvaluateList ==
  /\ evaluated.call = Null
  /\ \E call \in ListEvaluators, role \in RoleValues, permissions \in PermissionLists :
       evaluated' =
         [ call |-> call, role |-> role, permission |-> Null,
           permissions |-> permissions,
           result |->
             CASE call = "hasAnyPermission" -> hasAnyPermission(role, permissions)
               [] call = "hasAllPermissions" -> hasAllPermissions(role, permissions)
               [] call = "canUserPerformAny" -> canUserPerformAny(role, permissions)
               [] call = "canUserPerformAll" -> canUserPerformAll(role, permissions)
               [] call = "useAnyPermission" -> useAnyPermission(role, permissions)
               [] call = "useAllPermissions" -> useAllPermissions(role, permissions) ]
  /\ UNCHANGED << organization, userOrganization, req, calls, gate >>

EvaluateRole ==
  /\ evaluated.call = Null
  /\ \E call \in RoleEvaluators, role \in RoleValues :
       evaluated' =
         [ call |-> call, role |-> role, permission |-> Null,
           permissions |-> << >>,
           result |->
             CASE call = "getRolePermissions" -> getRolePermissions(role)
               [] call = "getUserPermissions" -> getUserPermissions(role) ]
  /\ UNCHANGED << organization, userOrganization, req, calls, gate >>

\* a component renders <PermissionGuard role permission fallback>children
RenderPermissionGuard ==
  /\ evaluated.call = Null
  /\ \E role \in UserRole \cup {Null}, permission \in Permission :
       evaluated' =
         [ call |-> "PermissionGuard", role |-> role, permission |-> permission,
           permissions |-> << >>,
           result |-> PermissionGuard(role, permission, "children", "fallback") ]
  /\ UNCHANGED << organization, userOrganization, req, calls, gate >>

EvaluateReturn ==
  /\ evaluated.call # Null
  /\ evaluated' = NoEvaluation
  /\ UNCHANGED << organization, userOrganization, req, calls, gate >>

EvalNext ==
  \/ EvaluatePermission
  \/ EvaluateList
  \/ EvaluateRole
  \/ RenderPermissionGuard
  \/ EvaluateReturn

SpecEval == Init /\ [][EvalNext]_vars

(* ============================== properties ============================= *)
HasMembers(id) ==
  \E i \in DOMAIN userOrganization : userOrganization[i].organizationId = id

AdminCount(id) == CountUserOrganization(userOrganization, id, "ADMIN")

RoleOf(userId, id) == FindUniqueUserOrganization(userOrganization, userId, id).role

MemberMutations == {"updateUserRole", "removeUserFromOrganization"}

\* connection p answers in this step
Answers(p) == InFlight(p) /\ req'[p].pc = "done"

\* the request on p demotes or removes its target if it goes through
TakesAdminAway(p) ==
  \/ req[p].op = "updateUserRole" /\ req[p].role # "ADMIN"
  \/ req[p].op = "removeUserFromOrganization"

\* the permission the procedure on p asks the gate for
Required(p) ==
  CASE req[p].op = "get" -> PERMISSIONS.ORG_VIEW
    [] req[p].op = "update" -> PERMISSIONS.ORG_UPDATE
    [] req[p].op = "getMembers" -> PERMISSIONS.MEMBER_VIEW
    [] req[p].op = "updateUserRole" -> PERMISSIONS.MEMBER_UPDATE_ROLE
    [] req[p].op = "removeUserFromOrganization" -> PERMISSIONS.MEMBER_REMOVE
    [] OTHER -> Null

\* C1: when calls do not overlap, every organization that has a membership
\* has at least one ADMIN membership, in every state.
LastAdminSequential ==
  \A id \in OrgIds : HasMembers(id) => AdminCount(id) >= 1

\* an admin has been demoted or removed and the organization still has members
LastAdminSequentialWitness ==
  \E p \in Procs :
    /\ Answered(p) /\ req[p].op \in MemberMutations /\ TakesAdminAway(p)
    /\ req[p].result.code = "OK"
    /\ req[p].targetUserOrg.role = "ADMIN"
    /\ HasMembers(req[p].organizationId)

\* C2: when requests interleave, no organization reaches a state with
\* memberships but no ADMIN membership.
LastAdminInterleaved ==
  ~ \E id \in OrgIds : HasMembers(id) /\ AdminCount(id) = 0

\* C3: every organization inserted by create has at least one membership, in
\* every state and under every interleaving.
OrganizationNeverEmpty ==
  \A id \in DOMAIN organization : HasMembers(id)

\* C4: with exactly one ADMIN in the organization, a call by a caller holding
\* the permission that demotes or removes that admin is answered with
\* FORBIDDEN "Cannot remove the last admin from an organization".
SoleAdminProtected ==
  [][ \A p \in Procs :
        ( /\ Answers(p) /\ req[p].op \in MemberMutations /\ TakesAdminAway(p)
          /\ AdminCount(req[p].organizationId) = 1
          /\ RoleOf(req[p].userId, req[p].organizationId) = "ADMIN"
          /\ hasPermission(RoleOf(req[p].caller, req[p].organizationId), Required(p)) )
        => /\ req'[p].result.code = "FORBIDDEN"
           /\ req'[p].result.message = "Cannot remove the last admin from an organization"
    ]_vars

\* the sole admin has asked to demote or remove themselves and was refused
SoleAdminProtectedWitness ==
  \E p \in Procs :
    /\ Answered(p) /\ req[p].op \in MemberMutations /\ TakesAdminAway(p)
    /\ req[p].caller = req[p].userId
    /\ AdminCount(req[p].organizationId) = 1
    /\ RoleOf(req[p].userId, req[p].organizationId) = "ADMIN"
    /\ req[p].result = LastAdmin

\* C5: with at least two ADMINs in the organization, an ADMIN caller's call
\* that demotes an ADMIN to MEMBER returns the row with role MEMBER, and one
\* that removes an ADMIN returns {success: true} and the row is gone.
SecondAdminAllows ==
  [][ \A p \in Procs :
        ( /\ Answers(p) /\ req[p].op \in MemberMutations
          /\ req[p].op = "updateUserRole" => req[p].role = "MEMBER"
          /\ AdminCount(req[p].organizationId) >= 2
          /\ RoleOf(req[p].userId, req[p].organizationId) = "ADMIN"
          /\ RoleOf(req[p].caller, req[p].organizationId) = "ADMIN" )
        => IF req[p].op = "updateUserRole"
             THEN /\ req'[p].result.code = "OK"
                  /\ req'[p].result.value =
                       [ userId |-> req[p].userId,
                         organizationId |-> req[p].organizationId, role |-> "MEMBER" ]
                  /\ FindUniqueUserOrganization(userOrganization', req[p].userId,
                                                req[p].organizationId).role = "MEMBER"
             ELSE /\ req'[p].result = Ok([success |-> TRUE])
                  /\ IsNull(FindUniqueUserOrganization(userOrganization', req[p].userId,
                                                       req[p].organizationId))
    ]_vars

\* an admin has demoted or removed themselves while another admin remained
SecondAdminAllowsWitness ==
  \E p \in Procs :
    /\ Answered(p) /\ req[p].op \in MemberMutations /\ TakesAdminAway(p)
    /\ req[p].caller = req[p].userId
    /\ req[p].targetUserOrg.role = "ADMIN"
    /\ req[p].result.code = "OK"
    /\ AdminCount(req[p].organizationId) >= 1

\* C6: a call of updateUserRole or removeUserFromOrganization that ends in an
\* error leaves the membership rows as they were: only the step that answers
\* with success changes a row.
ErrorsLeaveRows ==
  [][ \A p \in Procs :
        ( /\ InFlight(p) /\ req[p].op \in MemberMutations
          /\ ~(req'[p].pc = "done" /\ req'[p].result.code = "OK") )
        => userOrganization' = userOrganization
    ]_vars

\* the sole admin's removal has been refused and the row is still there
ErrorsLeaveRowsWitness ==
  \E p \in Procs :
    /\ Answered(p) /\ req[p].op = "removeUserFromOrganization"
    /\ req[p].result = LastAdmin
    /\ RoleOf(req[p].userId, req[p].organizationId) = "ADMIN"

Gated == {"get", "update", "getMembers"} \cup MemberMutations

\* C7: a caller without a membership row in the organization is answered
\* FORBIDDEN "You are not a member of this organization" by every gated
\* procedure; get on an id that no organization has is never NOT_FOUND.
NonMembersRefused ==
  [][ \A p \in Procs :
        ( /\ Answers(p) /\ req[p].op \in Gated
          /\ RoleOf(req[p].caller, req[p].organizationId) = Null )
        => /\ req'[p].result.code = "FORBIDDEN"
           /\ req'[p].result.message = "You are not a member of this organization"
           /\ req'[p].result # OrganizationNotFound
    ]_vars

\* an admin of one organization has asked for an organization that does not exist
NonMembersRefusedWitness ==
  \E p \in Procs :
    /\ Answered(p) /\ req[p].op = "get"
    /\ ~OrganizationExists(organization, req[p].organizationId)
    /\ \E id \in OrgIds : RoleOf(req[p].caller, id) = "ADMIN"
    /\ req[p].result = NotAMember

AdminOnly == {"update"} \cup MemberMutations

\* C8: a caller whose role is MEMBER is answered FORBIDDEN "You don't have
\* permission to perform this action" by update, updateUserRole and
\* removeUserFromOrganization, and neither table changes.
MembersRefused ==
  [][ \A p \in Procs :
        ( /\ InFlight(p) /\ req[p].op \in AdminOnly
          /\ RoleOf(req[p].caller, req[p].organizationId) = "MEMBER" )
        => /\ organization' = organization
           /\ userOrganization' = userOrganization
           /\ req'[p].pc = "done"
           /\ req'[p].result.code = "FORBIDDEN"
           /\ req'[p].result.message = "You don't have permission to perform this action"
    ]_vars

\* a member has asked to update the organization and was refused
MembersRefusedWitness ==
  \E p \in Procs :
    /\ Answered(p) /\ req[p].op = "update"
    /\ RoleOf(req[p].caller, req[p].organizationId) = "MEMBER"
    /\ req[p].result = NoPermission

\* the permissions the table gives a role, as a set
Held(role) == { ROLE_PERMISSIONS[role][i] : i \in DOMAIN ROLE_PERMISSIONS[role] }

\* the permissions a call of the gate asks for, as a set
Asked(required) ==
  IF required.isArray
    THEN { required.many[i] : i \in DOMAIN required.many }
    ELSE { required.one }

\* C9: for a caller with role r, authorize succeeds iff r holds at least one
\* of the required permissions, and then returns r.
GateAnyOf ==
  gate # NoGate =>
    LET r == RoleOf(gate.userId, gate.organizationId)
    IN  r # Null =>
          /\ (gate.result.code = "OK") <=> (Asked(gate.required) \cap Held(r) # {})
          /\ gate.result.code = "OK" => gate.result.value = [role |-> r]

\* a member passed with a list of which they hold the second permission only
GateAnyOfWitness ==
  /\ gate # NoGate /\ gate.required.isArray /\ Len(gate.required.many) = 2
  /\ RoleOf(gate.userId, gate.organizationId) = "MEMBER"
  /\ gate.required.many[1] \notin Held("MEMBER")
  /\ gate.result = Ok([role |-> "MEMBER"])

\* C10: a create call ends with the new organization and the caller's ADMIN
\* row as its only membership, or with no new row in either table.
AtomicCreate ==
  [][ \A p \in Procs :
        (Answers(p) /\ req[p].op = "create")
        => LET id == Len(organization) + 1
               row == OrganizationRow(id, req[p].name, req[p].slug)
               founder == [ userId |-> req[p].caller, organizationId |-> id,
                            role |-> "ADMIN" ]
           IN  \/ /\ req'[p].result = Ok(row)
                  /\ organization' = Append(organization, row)
                  /\ userOrganization' = Append(userOrganization, founder)
                  /\ FindManyByOrganization(userOrganization', id) = << founder >>
               \/ /\ req'[p].result.code # "OK"
                  /\ organization' = organization
                  /\ userOrganization' = userOrganization
    ]_vars

\* one create went through and another was rolled back at the membership insert
AtomicCreateWitness ==
  \E p \in Procs, q \in Procs :
    /\ Answered(p) /\ req[p].op = "create" /\ req[p].result.code = "OK"
    /\ FindManyByOrganization(userOrganization, req[p].result.value.id) =
         << [ userId |-> req[p].caller, organizationId |-> req[p].result.value.id,
              role |-> "ADMIN" ] >>
    /\ Answered(q) /\ req[q].op = "create" /\ req[q].result = PrismaError("P2003")
    /\ Len(organization) = 1

\* C11: create with a slug that an organization holds, and update by a caller
\* holding org:update with a slug that another organization holds, are
\* answered CONFLICT "Organization with this slug already exists" and leave
\* both tables as they were; update of an organization to the slug it has is
\* answered with the updated row.
SlugConflictOnly ==
  [][ \A p \in Procs :
        LET id == req[p].organizationId
            admin == RoleOf(req[p].caller, id) = "ADMIN"
            conflict ==
              \/ req[p].op = "create" /\ SlugTaken(organization, req[p].slug)
              \/ /\ req[p].op = "update" /\ admin /\ req[p].slug # Null
                 /\ \E i \in DOMAIN organization :
                      i # id /\ organization[i].slug = req[p].slug
            ownSlug ==
              /\ req[p].op = "update" /\ admin
              /\ organization[id].slug = req[p].slug
        IN  /\ (Answers(p) /\ conflict) =>
                 /\ req'[p].result.code = "CONFLICT"
                 /\ req'[p].result.message = "Organization with this slug already exists"
                 /\ organization' = organization
                 /\ userOrganization' = userOrganization
            /\ (Answers(p) /\ ownSlug) =>
                 /\ req'[p].result.code = "OK"
                 /\ req'[p].result.value.slug = req[p].slug
                 /\ organization'[id].slug = req[p].slug
    ]_vars

\* with two organizations, an update to the other one's slug was refused
SlugConflictOnlyWitness ==
  \E p \in Procs :
    /\ Answered(p) /\ req[p].op = "update"
    /\ Len(organization) = 2
    /\ organization[req[p].organizationId].slug # req[p].slug
    /\ SlugTaken(organization, req[p].slug)
    /\ req[p].result = SlugConflict

\* C12: when the caller holds the permission the procedure asks for and the
\* target (userId, organizationId) has no membership row, updateUserRole and
\* removeUserFromOrganization are answered NOT_FOUND "User is not a member of
\* this organization".
MissingTargetNotFound ==
  [][ \A p \in Procs :
        ( /\ Answers(p) /\ req[p].op \in MemberMutations
          /\ hasPermission(RoleOf(req[p].caller, req[p].organizationId), Required(p))
          /\ RoleOf(req[p].userId, req[p].organizationId) = Null )
        => /\ req'[p].result.code = "NOT_FOUND"
           /\ req'[p].result.message = "User is not a member of this organization"
    ]_vars

\* an admin asked to remove a user who is in another organization only
MissingTargetNotFoundWitness ==
  \E p \in Procs :
    /\ Answered(p) /\ req[p].op = "removeUserFromOrganization"
    /\ RoleOf(req[p].caller, req[p].organizationId) = "ADMIN"
    /\ RoleOf(req[p].userId, req[p].organizationId) = Null
    /\ \E id \in OrgIds : RoleOf(req[p].userId, id) # Null
    /\ req[p].result.code = "NOT_FOUND"
    /\ req[p].result.message = "User is not a member of this organization"

\* C13: getUserRoleInOrganization answers with the caller's role in the
\* organization whenever the caller has a membership row there, whatever the
\* role, and with NOT_FOUND "User is not a member of this organization", not
\* FORBIDDEN, whenever the caller has none.
OwnRoleOrNotFound ==
  [][ \A p \in Procs :
        (Answers(p) /\ req[p].op = "getUserRoleInOrganization")
        => LET role == RoleOf(req[p].caller, req[p].organizationId)
           IN  /\ role \in UserRole => req'[p].result = Ok(role)
               /\ role = Null =>
                    /\ req'[p].result.code = "NOT_FOUND"
                    /\ req'[p].result.message = "User is not a member of this organization"
               /\ Tables' = Tables
    ]_vars

\* a member without a single admin permission was told their role
OwnRoleOrNotFoundWitness ==
  \E p \in Procs :
    /\ Answered(p) /\ req[p].op = "getUserRoleInOrganization"
    /\ RoleOf(req[p].caller, req[p].organizationId) = "MEMBER"
    /\ req[p].result = Ok("MEMBER")

\* C14: an insert of a membership for a (userId, organizationId) pair that
\* has a row is rejected by the unique index with P2002 and writes nothing,
\* and after every step the table holds at most one row per pair.
MembershipUnique ==
  [][ /\ \A p \in Procs :
           ( /\ req[p].pc = "idle" /\ req'[p].op = "userOrganization.create"
             /\ RoleOf(req'[p].userId, req'[p].organizationId) # Null )
           => /\ req'[p].result.code # "OK"
              /\ req'[p].result.message = "P2002"
              /\ userOrganization' = userOrganization
      /\ \A i, j \in DOMAIN userOrganization' :
           ( /\ userOrganization'[i].userId = userOrganization'[j].userId
             /\ userOrganization'[i].organizationId = userOrganization'[j].organizationId )
           => i = j
    ]_vars

\* a second row with another role was refused for a pair that has a row
MembershipUniqueWitness ==
  \E p \in Procs :
    /\ Answered(p) /\ req[p].op = "userOrganization.create"
    /\ req[p].result = PrismaError("P2002")
    /\ RoleOf(req[p].userId, req[p].organizationId) \in UserRole \ {req[p].role}

RouterProcedures ==
  { "create", "get", "getUserOrganizations", "update", "getMembers",
    "getUserRoleInOrganization" } \cup MemberMutations

\* the caller of the request on p holds the permission its procedure asks for
PassesGate(p) ==
  LET role == RoleOf(req[p].caller, req[p].organizationId)
  IN  role \in UserRole /\ Required(p) \in Held(role)

\* a call of one of the procedures starts at authorize, and while its caller
\* does not pass, its step is the refusal and writes nothing
GateFirstStep(procedures) ==
  \A p \in Procs :
    /\ (req[p].pc = "idle" /\ req'[p].op \in procedures) => req'[p].pc = "authorize"
    /\ (InFlight(p) /\ req[p].op \in procedures /\ ~PassesGate(p))
       => /\ req'[p].pc = "done"
          /\ req'[p].result \in {NotAMember, NoPermission}
          /\ Tables' = Tables

\* C15 as stated: every procedure of the two routers other than create and
\* getUserRoleInOrganization calls authorize for the caller and the target
\* organization as its first action.
GateNeverBypassed ==
  [][ GateFirstStep(RouterProcedures \ {"create", "getUserRoleInOrganization"}) ]_vars

\* C15: every procedure that takes a target organization, other than
\* getUserRoleInOrganization, calls authorize for the caller and that
\* organization as its first action; getUserOrganizations takes no
\* organization, never calls authorize and answers with the caller's own
\* memberships only.
GateBeforeScopedData ==
  [][ /\ GateFirstStep(RouterProcedures \ { "create", "getUserRoleInOrganization",
                                           "getUserOrganizations" })
      /\ \A p \in Procs :
           (Answers(p) /\ req[p].op = "getUserOrganizations")
           => /\ req[p].pc # "authorize"
              /\ req'[p].result.code = "OK"
              /\ \A i \in DOMAIN req'[p].result.value.organizations :
                   LET o == req'[p].result.value.organizations[i]
                   IN  RoleOf(req[p].caller, o.id) = o.role
    ]_vars

\* a user with a membership elsewhere asked for the members of an
\* organization they are not in and was stopped at the gate
GateBeforeScopedDataWitness ==
  \E p \in Procs :
    /\ Answered(p) /\ req[p].op = "getMembers"
    /\ RoleOf(req[p].caller, req[p].organizationId) = Null
    /\ HasMembers(req[p].organizationId)
    /\ \E id \in OrgIds : RoleOf(req[p].caller, id) # Null
    /\ req[p].result = NotAMember

\* C16: hasPermission(ADMIN, p) is true for each of the 18 permissions of the
\* registry, and hasPermission(MEMBER, p) is true exactly for org:view,
\* member:view, expense:create, expense:view_own, expense:update_own,
\* expense:delete_own and policy:view; getRolePermissions lists the same, so
\* what MEMBER holds ADMIN holds.
RoleTableExact ==
  LET member == { "org:view", "member:view", "expense:create", "expense:view_own",
                  "expense:update_own", "expense:delete_own", "policy:view" }
      e == evaluated
      listed == { e.result[i] : i \in DOMAIN e.result }
  IN  /\ Cardinality(Permission) = 18
      /\ (e.call = "hasPermission" /\ e.role = "ADMIN") => e.result = TRUE
      /\ (e.call = "hasPermission" /\ e.role = "MEMBER")
         => (e.result = TRUE <=> e.permission \in member)
      /\ (e.call = "getRolePermissions" /\ e.role = "ADMIN") => listed = Permission
      /\ (e.call = "getRolePermissions" /\ e.role = "MEMBER")
         => listed = member /\ listed \subseteq Permission

\* MEMBER was asked about a permission only ADMIN holds
RoleTableExactWitness ==
  /\ evaluated.call = "hasPermission" /\ evaluated.role = "MEMBER"
  /\ evaluated.permission = "member:remove"
  /\ evaluated.result = FALSE

\* the elements of a list, as a set
Elements(list) == { list[i] : i \in DOMAIN list }

\* C17: for ADMIN and MEMBER and every list of permissions, the empty list and
\* lists with repeated elements included, hasAnyPermission is true iff some
\* element of the list is in the role's table entry and hasAllPermissions is
\* true iff every element is.
AnyAndAllOverLists ==
  LET e == evaluated
  IN  e.role \in UserRole =>
        /\ e.call = "hasAnyPermission"
           => (e.result = TRUE <=> Elements(e.permissions) \cap Held(e.role) # {})
        /\ e.call = "hasAllPermissions"
           => (e.result = TRUE <=> Elements(e.permissions) \subseteq Held(e.role))

\* MEMBER was asked for all of an empty list
AnyAndAllOverListsWitness ==
  /\ evaluated.call = "hasAllPermissions" /\ evaluated.role = "MEMBER"
  /\ evaluated.permissions = << >>
  /\ evaluated.result = TRUE

\* C18: for a role that is undefined or no key of the table, hasPermission,
\* canUserPerform and usePermission return false for every permission,
\* canUserPerformAny, canUserPerformAll, useAnyPermission and
\* useAllPermissions return false for every list, and getRolePermissions and
\* getUserPermissions return the empty list.
UnknownRoleDenied ==
  LET e == evaluated
  IN  (e.call # Null /\ e.role \notin UserRole) =>
        /\ e.call \in PermissionEvaluators => e.result = FALSE
        /\ e.call \in ListEvaluators \ {"hasAnyPermission", "hasAllPermissions"}
           => e.result = FALSE
        /\ e.call \in RoleEvaluators => e.result = << >>

\* the place of a membership row in the order of creation
CreatedAt(row) ==
  CHOOSE k \in DOMAIN userOrganization :
    /\ userOrganization[k].userId = row.userId
    /\ userOrganization[k].organizationId = row.organizationId

\* list holds every membership row that passes the test once, oldest first
ExactlyAscending(list, Test(_)) ==
  /\ Len(list) = Cardinality({ k \in DOMAIN userOrganization : Test(userOrganization[k]) })
  /\ \A i \in DOMAIN list :
       /\ Test(list[i])
       /\ FindUniqueUserOrganization(userOrganization, list[i].userId,
                                     list[i].organizationId).role = list[i].role
  /\ \A i, j \in DOMAIN list : i < j => CreatedAt(list[i]) < CreatedAt(list[j])

\* C19: getMembers answers with exactly the membership rows of the
\* organization and getUserOrganizations with exactly the caller's
\* memberships, each with its organization and role, both oldest first; two
\* calls with the same input and no write between them get the same answer.
ReadsExactAndRepeatable ==
  \A p \in Procs :
    Answered(p) =>
      /\ (req[p].op = "getMembers" /\ req[p].result.code = "OK")
         => LET InOrganization(row) == row.organizationId = req[p].organizationId
            IN  ExactlyAscending(req[p].result.value.members, InOrganization)
      /\ req[p].op = "getUserOrganizations"
         => LET list == req[p].result.value.organizations
                rows == [ i \in DOMAIN list |->
                            [ userId |-> req[p].caller, organizationId |-> list[i].id,
                              role |-> list[i].role ] ]
                OfCaller(row) == row.userId = req[p].caller
            IN  /\ req[p].result.code = "OK"
                /\ ExactlyAscending(rows, OfCaller)
                /\ \A i \in DOMAIN list :
                     /\ list[i].name = organization[list[i].id].name
                     /\ list[i].slug = organization[list[i].id].slug
      /\ \A q \in Procs :
           ( /\ Answered(q) /\ req[q].op = req[p].op /\ req[p].op \in Reads
             /\ req[q].caller = req[p].caller
             /\ req[q].organizationId = req[p].organizationId )
           => req[q].result = req[p].result

\* the same admin asked twice for the members of an organization with two
\* rows that were not inserted one after the other
ReadsExactAndRepeatableWitness ==
  /\ \A p \in Procs :
       /\ Answered(p) /\ req[p].op = "getMembers"
       /\ req[p].caller = req["p1"].caller
       /\ req[p].organizationId = req["p1"].organizationId
       /\ req[p].result.code = "OK"
       /\ Len(req[p].result.value.members) = 2
  /\ Len(userOrganization) = 3
  /\ userOrganization[2].organizationId # req["p1"].organizationId

\* the membership tables that differ from the current one only in the rows
\* userId has in organizations other than organizationId: each such row kept,
\* given either role, or deleted
ElsewhereVariants(userId, organizationId) ==
  LET Elsewhere(k) ==
        /\ userOrganization[k].userId = userId
        /\ userOrganization[k].organizationId # organizationId
      choices == [ { k \in DOMAIN userOrganization : Elsewhere(k) } -> UserRole \cup {Null} ]
      Changed(choice) ==
        [ k \in DOMAIN userOrganization |->
            IF Elsewhere(k) /\ choice[k] # Null
              THEN [ userOrganization[k] EXCEPT !.role = choice[k] ]
              ELSE userOrganization[k] ]
      Kept(choice) ==
        LET rows == Changed(choice)
            F[k \in 0..Len(rows)] ==
              IF k = 0 THEN << >>
              ELSE IF Elsewhere(k) /\ choice[k] = Null THEN F[k - 1]
              ELSE Append(F[k - 1], rows[k])
        IN  F[Len(rows)]
  IN  { Kept(choice) : choice \in choices }

GateRefusals == {NotAMember, NoPermission}

Removed(q, userId, id) ==
  /\ Answered(q) /\ req[q].op = "removeUserFromOrganization"
  /\ req[q].result.code = "OK"
  /\ req[q].userId = userId /\ req[q].organizationId = id

\* C21: a removeUserFromOrganization that succeeds leaves no row for the
\* pair; every gated call of the removed user on that organization that
\* reaches the gate while the pair has no row is answered FORBIDDEN "You are
\* not a member of this organization"; only an insert for the pair brings a
\* row back, and once the user is back as MEMBER, get passes the gate and
\* answers with the organization while update is refused.
RevocationTakesEffect ==
  [][ \A q \in Procs :
        /\ ( /\ Answers(q) /\ req[q].op = "removeUserFromOrganization"
             /\ req'[q].result.code = "OK" )
           => FindManyByUser(FindManyByOrganization(userOrganization',
                                                    req[q].organizationId),
                             req[q].userId) = << >>
        /\ \A p \in Procs \ {q} :
             LET u == req[q].userId
                 O == req[q].organizationId
                 mine == FindManyByUser(FindManyByOrganization(userOrganization, O), u)
                 mineAfter == FindManyByUser(FindManyByOrganization(userOrganization', O), u)
             IN  Removed(q, u, O) =>
                   /\ (mine = << >> /\ mineAfter # << >>)
                      => req'[p].op = "userOrganization.create"
                   /\ ( /\ InFlight(p) /\ req[p].pc = "authorize" /\ req'[p] # req[p]
                        /\ req[p].caller = u /\ req[p].organizationId = O )
                      => /\ mine = << >>
                            => /\ req'[p].pc = "done"
                               /\ req'[p].result.code = "FORBIDDEN"
                               /\ req'[p].result.message =
                                    "You are not a member of this organization"
                         /\ (Len(mine) = 1 /\ mine[1].role = "MEMBER")
                            => /\ req[p].op = "get" => req'[p].pc = "findUnique"
                               /\ req[p].op = "update"
                                  => /\ req'[p].pc = "done"
                                     /\ req'[p].result.code = "FORBIDDEN"
                   /\ (Answers(p) /\ req[p].op = "get" /\ req[p].pc = "findUnique"
                       /\ req[p].caller = u /\ req[p].organizationId = O)
                      => req'[p].result = Ok(organization[O])
    ]_vars

\* a user was removed, added again as MEMBER, and has got the organization
RevocationTakesEffectWitness ==
  \E p \in Procs, q \in Procs :
    /\ Removed(q, req[p].caller, req[p].organizationId)
    /\ Answered(p) /\ req[p].op = "get"
    /\ RoleOf(req[p].caller, req[p].organizationId) = "MEMBER"
    /\ req[p].result.code = "OK"

\* C22: every role update or row delete that updateUserRole or
\* removeUserFromOrganization commits is committed for a caller whose role in
\* the organization is ADMIN at the moment of the write, under every
\* interleaving.
WriteByCurrentAdmin ==
  [][ \A p \in Procs :
        ( /\ Answers(p) /\ req[p].op \in MemberMutations
          /\ req'[p].result.code = "OK" )
        => RoleOf(req[p].caller, req[p].organizationId) = "ADMIN"
    ]_vars

\* C23: updateUserRole and removeUserFromOrganization check in the order
\* caller is a member, caller holds the permission, target row exists, last
\* admin; the first check that fails decides the answer, and when none fails
\* the call succeeds.
CheckOrder ==
  [][ \A p \in Procs :
        (Answers(p) /\ req[p].op \in MemberMutations)
        => LET O == req[p].organizationId
               actor == { userOrganization[k].role : k \in
                            { k \in DOMAIN userOrganization :
                                /\ userOrganization[k].userId = req[p].caller
                                /\ userOrganization[k].organizationId = O } }
               target == { userOrganization[k].role : k \in
                             { k \in DOMAIN userOrganization :
                                 /\ userOrganization[k].userId = req[p].userId
                                 /\ userOrganization[k].organizationId = O } }
               admins == Cardinality({ k \in DOMAIN userOrganization :
                                         /\ userOrganization[k].organizationId = O
                                         /\ userOrganization[k].role = "ADMIN" })
               code == req'[p].result.code
               message == req'[p].result.message
           IN  IF actor = {}
                 THEN code = "FORBIDDEN"
                      /\ message = "You are not a member of this organization"
               ELSE IF actor # {"ADMIN"}
                 THEN code = "FORBIDDEN"
                      /\ message = "You don't have permission to perform this action"
               ELSE IF target = {}
                 THEN code = "NOT_FOUND"
                      /\ message = "User is not a member of this organization"
               ELSE IF target = {"ADMIN"} /\ TakesAdminAway(p) /\ admins <= 1
                 THEN code = "FORBIDDEN"
                      /\ message = "Cannot remove the last admin from an organization"
               ELSE code = "OK"
    ]_vars

\* a caller asked to change a user in an organization that does not exist,
\* where neither of them has a row, and was told they are not a member
CheckOrderWitness ==
  \E p \in Procs :
    /\ Answered(p) /\ req[p].op \in MemberMutations
    /\ req[p].caller # req[p].userId
    /\ ~OrganizationExists(organization, req[p].organizationId)
    /\ RoleOf(req[p].userId, req[p].organizationId) = Null
    /\ req[p].result = NotAMember

\* C24: for a caller who is ADMIN and a target that has a row, updateUserRole
\* to ADMIN, updateUserRole of a MEMBER to MEMBER and
\* removeUserFromOrganization of a MEMBER succeed whatever the number of
\* admins; afterwards the target's row has the new role, respectively is gone.
NoCountWithoutDemotion ==
  [][ \A p \in Procs :
        LET O == req[p].organizationId
            before == FindManyByUser(FindManyByOrganization(userOrganization, O),
                                     req[p].userId)
            after == FindManyByUser(FindManyByOrganization(userOrganization', O),
                                    req[p].userId)
            actor == FindManyByUser(FindManyByOrganization(userOrganization, O),
                                    req[p].caller)
        IN  ( /\ Answers(p) /\ req[p].op \in MemberMutations
              /\ Len(actor) = 1 /\ actor[1].role = "ADMIN"
              /\ Len(before) = 1
              /\ IF req[p].op = "updateUserRole"
                   THEN req[p].role = "ADMIN" \/ before[1].role = "MEMBER"
                   ELSE before[1].role = "MEMBER" )
            => /\ req'[p].result.code = "OK"
               /\ IF req[p].op = "updateUserRole"
                    THEN Len(after) = 1 /\ after[1].role = req[p].role
                    ELSE after = << >>
    ]_vars

\* the sole admin set their own role to ADMIN and the call went through
NoCountWithoutDemotionWitness ==
  \E p \in Procs :
    /\ Answered(p) /\ req[p].op = "updateUserRole" /\ req[p].role = "ADMIN"
    /\ req[p].caller = req[p].userId
    /\ req[p].targetUserOrg.role = "ADMIN"
    /\ AdminCount(req[p].organizationId) = 1
    /\ req[p].result.code = "OK"

\* C25: a successful updateUserRole or removeUserFromOrganization on
\* (target, organization) changes the membership row of that pair and nothing
\* else: every other membership row, in the same and in every other
\* organization, and every organization row stay as they were.
MutationFrame ==
  [][ \A p \in Procs :
        ( /\ Answers(p) /\ req[p].op \in MemberMutations
          /\ req'[p].result.code = "OK" )
        => LET Other(row) == ~( /\ row.userId = req[p].userId
                                /\ row.organizationId = req[p].organizationId )
           IN  /\ organization' = organization
               /\ SelectSeq(userOrganization', Other) = SelectSeq(userOrganization, Other)
               /\ IF req[p].op = "updateUserRole"
                    THEN /\ Len(userOrganization') = Len(userOrganization)
                         /\ \A k \in DOMAIN userOrganization :
                              /\ userOrganization'[k].userId = userOrganization[k].userId
                              /\ userOrganization'[k].organizationId =
                                   userOrganization[k].organizationId
                    ELSE Len(userOrganization') = Len(userOrganization) - 1
    ]_vars

\* the role of a user with rows in both organizations was changed in one of them
MutationFrameWitness ==
  \E p \in Procs :
    /\ Answered(p) /\ req[p].op = "updateUserRole" /\ req[p].result.code = "OK"
    /\ req[p].targetUserOrg.role # req[p].role
    /\ \E id \in OrgIds \ {req[p].organizationId} :
         RoleOf(req[p].userId, id) = req[p].targetUserOrg.role

Mutations == {"create", "update"} \cup MemberMutations

\* C26: every call of create, update, updateUserRole or
\* removeUserFromOrganization made for a user of the User table ends in
\* success or in an error with code FORBIDDEN, NOT_FOUND or CONFLICT, under
\* every interleaving with other requests.
ClosedErrorTaxonomy ==
  \A p \in Procs :
    (Answered(p) /\ req[p].op \in Mutations /\ req[p].caller \in User)
    => req[p].result.code \in {"OK", "FORBIDDEN", "NOT_FOUND", "CONFLICT"}

\* C27: no two organization rows have the same slug, under every
\* interleaving of create and update calls.
SlugUnique ==
  \A i, j \in DOMAIN organization :
    organization[i].slug = organization[j].slug => i = j

\* two creates read the slug as free, one committed and the other was
\* rejected at its insert
SlugUniqueWitness ==
  \E p \in Procs, q \in Procs :
    /\ Answered(p) /\ req[p].op = "create" /\ req[p].result.code = "OK"
    /\ Answered(q) /\ req[q].op = "create" /\ req[q].slug = req[p].slug
    /\ req[q].result.message = "P2002"
    /\ SlugTaken(organization, req[p].slug)

\* C28: a successful update changes the name only when a name is supplied
\* and the slug only when a slug is supplied, leaves the other field, the id,
\* every other organization row and every membership row as they were, and
\* is committed only for a caller whose role in the organization is ADMIN at
\* that moment.
UpdateFrame ==
  [][ \A p \in Procs :
        (Answers(p) /\ req[p].op = "update" /\ req'[p].result.code = "OK")
        => LET id == req[p].organizationId
           IN  /\ userOrganization' = userOrganization
               /\ DOMAIN organization' = DOMAIN organization
               /\ \A i \in DOMAIN organization \ {id} : organization'[i] = organization[i]
               /\ organization'[id].id = organization[id].id
               /\ organization'[id].name =
                    IF req[p].name = Null THEN organization[id].name ELSE req[p].name
               /\ organization'[id].slug =
                    IF req[p].slug = Null THEN organization[id].slug ELSE req[p].slug
               /\ req'[p].result.value = organization'[id]
               /\ \E k \in DOMAIN userOrganization :
                    /\ userOrganization[k].userId = req[p].caller
                    /\ userOrganization[k].organizationId = id
                    /\ userOrganization[k].role = "ADMIN"
    ]_vars

\* C29: for a role of UserRole the client helpers answer as the server
\* evaluators do: canUserPerform as hasPermission, canUserPerformAny as
\* hasAnyPermission, canUserPerformAll as hasAllPermissions, and
\* getUserPermissions(role) holds exactly the permissions of
\* getRolePermissions(role); PermissionGuard renders its children when the
\* role is defined and hasPermission(role, permission) holds, and its
\* fallback otherwise.
ClientMatchesServer ==
  LET e == evaluated
  IN  /\ (e.call = "canUserPerform" /\ e.role \in UserRole)
           => e.result = hasPermission(e.role, e.permission)
      /\ (e.call = "canUserPerformAny" /\ e.role \in UserRole)
           => e.result = hasAnyPermission(e.role, e.permissions)
      /\ (e.call = "canUserPerformAll" /\ e.role \in UserRole)
           => e.result = hasAllPermissions(e.role, e.permissions)
      /\ (e.call = "getUserPermissions" /\ e.role \in UserRole)
           => Elements(e.result) = Elements(getRolePermissions(e.role))
      /\ e.call = "PermissionGuard"
           => e.result =
                IF e.role # Null /\ hasPermission(e.role, e.permission)
                  THEN "children" ELSE "fallback"

\* getUserPermissions of a MEMBER returned some of the permissions, not all
ClientMatchesServerWitness ==
  /\ evaluated.call = "getUserPermissions"
  /\ evaluated.role = "MEMBER"
  /\ Len(evaluated.result) > 0
  /\ Len(evaluated.result) < Len(ObjectValuesPERMISSIONS)

====
